---- MODULE Spec2Model ----
(***************************************************************************)
(* A model of dhl: Recipients (src/src/recipients.rs), which indexes the   *)
(* placeholder library files of a deps directory and resolves crate names  *)
(* to destination paths, and Depot (src/src/depot.rs), which unpacks each  *)
(* package's archive onto the resolved destination.                        *)
(*                                                                         *)
(* Text (file names, crate names) is a sequence of one-character strings,  *)
(* so that the parsing and the normalisation the code performs are         *)
(* computed, not assumed.  A path is the sequence of its components, as    *)
(* std::path::Path::components yields them; the root directory is the      *)
(* component RootDir.                                                      *)
(***************************************************************************)
EXTENDS Integers, Sequences, FiniteSets, TLC

\* ------------------------------------------------------------------ bounds

\* Largest known modification time of a directory entry (times are 1..MaxTime).
MaxTime == 2
\* Largest number of entries in the scanned deps directory.
MaxFiles == 3
\* Largest number of direct calls of Recipients::get by one caller.
MaxGets == 2
\* Largest number of entries in an archive.
MaxEntries == 3
\* Largest number of packages in one call of Depot::deliver.
MaxPackages == 2
\* Number of threads that call Recipients::get concurrently.
MaxThreads == 2

\* ------------------------------------------------------------ option values

None == [ok |-> FALSE]
Some(x) == [ok |-> TRUE, val |-> x]

\* ------------------------------------------------------------------- text

\* A byte sequence that is not valid UTF-8 (OsStr::to_str yields None on it).
InvalidByte == "<FF>"

lib == <<"l", "i", "b">>
rlib == <<".", "r", "l", "i", "b">>
deps == <<"d", "e", "p", "s">>

\* const DEFAULT_EXPORT: &'static str = "export.rlib";
DEFAULT_EXPORT == <<"e", "x", "p", "o", "r", "t">> \o rlib

\* OsStr::to_str: the text, when every byte of it is valid.
to_str(s) ==
    IF \E i \in 1..Len(s) : s[i] = InvalidByte THEN None ELSE Some(s)

\* Whether pat occurs in s at position i.
OccursAt(s, pat, i) ==
    /\ i >= 1
    /\ i + Len(pat) - 1 <= Len(s)
    /\ \A j \in 1..Len(pat) : s[i + j - 1] = pat[j]

\* str::find: the position of the first occurrence of pat in s, 0 when none.
Find(s, pat) ==
    IF \E i \in 1..Len(s) : OccursAt(s, pat, i)
    THEN CHOOSE i \in 1..Len(s) :
            /\ OccursAt(s, pat, i)
            /\ \A k \in 1..(i - 1) : ~OccursAt(s, pat, k)
    ELSE 0

\* s.splitn(2, pat).nth(1): what follows the first occurrence of pat.
SplitAfter(s, pat) ==
    LET i == Find(s, pat)
    IN  IF i = 0 THEN None ELSE Some(SubSeq(s, i + Len(pat), Len(s)))

\* s.splitn(2, pat).nth(0): what precedes the first occurrence of pat, the
\* whole of s when pat does not occur (nth(0) of a split is never None).
SplitBefore(s, pat) ==
    LET i == Find(s, pat)
    IN  IF i = 0 THEN Some(s) ELSE Some(SubSeq(s, 1, i - 1))

\* str::ends_with
ends_with(s, suffix) ==
    /\ Len(suffix) <= Len(s)
    /\ SubSeq(s, Len(s) - Len(suffix) + 1, Len(s)) = suffix

\* str::replace(from, to) for single characters.
replace(s, from, to) ==
    [i \in 1..Len(s) |-> IF s[i] = from THEN to ELSE s[i]]

\* The index key Recipients::with_path computes from a directory entry's
\* file name; None when the entry is skipped (the three `continue`s).
ParseKey(file_name) ==
    LET utf == to_str(file_name)
    IN  IF ~utf.ok THEN None
        ELSE LET afterLib == SplitAfter(utf.val, lib)
             IN  IF ~afterLib.ok THEN None
                 ELSE IF ~ends_with(afterLib.val, rlib) THEN None
                 ELSE SplitBefore(afterLib.val, <<"-">>)

\* ------------------------------------------------------------------ paths

RootDir == <<"/">>
ParentDir == <<".", ".">>

\* Path::parent: the path without its final component; None when the path
\* ends in the root or is empty.
parent(p) ==
    IF p = <<>> THEN None
    ELSE IF p[Len(p)] = RootDir THEN None
    ELSE Some(SubSeq(p, 1, Len(p) - 1))

\* Path::file_name: the final component when it is a normal one.
file_name_of(p) ==
    IF p = <<>> THEN None
    ELSE IF p[Len(p)] \in {RootDir, ParentDir} THEN None
    ELSE Some(p[Len(p)])

\* Path::join: an absolute q replaces p.
join(p, q) ==
    IF q # <<>> /\ q[1] = RootDir THEN q ELSE p \o q

\* Path::strip_prefix: the components of p after those of base; None when
\* base is not a prefix of p.
strip_prefix(p, base) ==
    IF Len(base) <= Len(p) /\ SubSeq(p, 1, Len(base)) = base
    THEN Some(SubSeq(p, Len(base) + 1, Len(p)))
    ELSE None

\* A with_file_name that pushes the name without popping the file name.
with_file_name_push(path, name) == join(path, <<name>>)

\* Path::with_file_name: set_file_name pops the final component when the
\* path has a file name, then pushes the new one.
with_file_name(p, name) ==
    join(IF file_name_of(p).ok THEN SubSeq(p, 1, Len(p) - 1) ELSE p, <<name>>)

\* Option::and_then(Path::parent)
and_then_parent(o) == IF o.ok THEN parent(o.val) ELSE None

Ok(x) == [ok |-> TRUE, val |-> x]
Err(e) == [ok |-> FALSE, err |-> e]

\* A get_deps_dir that takes the second ancestor.
get_deps_dir_second(dir) ==
    LET d == and_then_parent(parent(dir))
    IN  IF d.ok THEN Ok(join(d.val, <<deps>>))
        ELSE Err([kind |-> "InvalidOutDir", out_dir |-> dir])

\* Recipients::get_deps_dir
get_deps_dir(dir) ==
    LET d == and_then_parent(and_then_parent(parent(dir)))
    IN  IF d.ok THEN Ok(join(d.val, <<deps>>))
        ELSE Err([kind |-> "InvalidOutDir", out_dir |-> dir])

\* ------------------------------------------------------------- input pools

t == <<"t">>
m == <<"m">>
b == <<"b">>
p == <<"p">>
o == <<"o">>

\* The directories that exist in the file system the program runs on.
ExistingDirs == {<<RootDir, t, deps>>, <<t, deps>>}

\* OUT_DIR values: with three ancestors or more, and with fewer.
OutDirs ==
    { <<RootDir, t, b, p, o>>, <<t, b, p, o>>, <<b, p, o>>, <<RootDir, b, p, o>>,
      <<RootDir, t, b, p, ParentDir>>,
      <<RootDir, p, o>>, <<p, o>>, <<o>>, <<RootDir>>, <<>> }

\* CARGO_MANIFEST_DIR values: ancestors of the deps directory, the deps
\* directory itself, and others.
ManifestDirs ==
    { <<RootDir>>, <<RootDir, t>>, <<RootDir, t, deps>>, <<RootDir, m>>, <<t>>, <<>> }

LibA1 == lib \o <<"a", "-", "1">> \o rlib
LibA2 == lib \o <<"a", "-", "2">> \o rlib
LibAB == lib \o <<"a", "_", "b", "-", "1">> \o rlib
LibNoDash == lib \o <<"a">> \o rlib
NoLib == <<"a", "-", "1">> \o rlib
MidLib == <<"x">> \o lib \o <<"a", "-", "3">> \o rlib
NoExt == lib \o <<"a", "-", "1", ".", "d">>
NotUtf8 == lib \o <<"a", "-", InvalidByte>> \o rlib

\* File names a deps directory may hold.
FileNames == {LibA1, LibA2, LibAB, LibNoDash, NoLib, MidLib, NoExt, NotUtf8}

\* The names whose modification time varies over every value (the others
\* have the known time 1).
Colliders == {LibA1, LibA2, MidLib}

\* io::Result<SystemTime>
MtimeErr == [ok |-> FALSE]
MtimeOk(n) == [ok |-> TRUE, val |-> n]
Mtimes(name) ==
    IF name \in Colliders
    THEN {MtimeErr} \cup {MtimeOk(n) : n \in 1..MaxTime}
    ELSE {MtimeOk(1)}

\* The modification times Entry::unpack may leave a file with: the one of
\* the entry's header, older or newer than the files of the directory, the
\* time of the write, newer than them all, or none the file system knows.
WriteTimes == {MtimeErr} \cup {MtimeOk(n) : n \in 1..(MaxTime + 1)}

\* Crate names passed to Recipients::get.
CrateA == <<"a">>
CrateAB == <<"a", "_", "b">>
CrateADashB == <<"a", "-", "b">>
CrateZ == <<"z">>
CrateNames == {CrateA, CrateAB, CrateADashB, CrateZ}

\* A tar entry: status is what reading it yields ("ok", or the step that
\* fails), path the entry's path in the archive, data its bytes.
Entry(status, path, data) == [status |-> status, path |-> path, data |-> data]

D1 == <<"d", "1">>
D2 == <<"d", "2">>
N == <<"n">>

EDep1 == Entry("ok", <<D1>>, "dep1")
EDep2 == Entry("ok", <<N, D2>>, "dep2")
EDep2Up == Entry("ok", <<ParentDir, D2>>, "dep2up")
EDep1Abs == Entry("ok", <<RootDir, D1>>, "dep1abs")
EExport == Entry("ok", <<DEFAULT_EXPORT>>, "export")
EExportNested == Entry("ok", <<N, DEFAULT_EXPORT>>, "export2")
ESibling == Entry("ok", <<LibAB>>, "sibling")
ENoName == Entry("ok", <<N, ParentDir>>, "noname")
ETarError == Entry("TarError", <<D1>>, "unread")
ETarPathError == Entry("TarPathError", <<>>, "unread")
EUnpackError == Entry("UnpackError", <<D2>>, "unwritten")
EUnpackTruncated == Entry("UnpackTruncated", <<DEFAULT_EXPORT>>, "unwritten")

EntryPool ==
    { EDep1, EDep2, EDep2Up, EDep1Abs, EExport, EExportNested, ESibling, ENoName,
      ETarError, ETarPathError, EUnpackError, EUnpackTruncated }

\* The archives a source may hold: a gzip stream that decodes or does not,
\* of a tar archive of at most MaxEntries entries.
Archive(gzip_ok, entries) == [gzip_ok |-> gzip_ok, entries |-> entries]
Archives ==
    { Archive(FALSE, <<>>) } \cup
    { Archive(TRUE, es) : es \in UNION { [1..n -> EntryPool] : n \in 0..MaxEntries } }

\* Package: kind is the variant of PackageData, source the path or the URL,
\* fetch_ok whether File::open (or the GET) succeeds, archive what it yields.
Package(kind, source, fetch_ok, archive) ==
    [kind |-> kind, source |-> source, fetch_ok |-> fetch_ok, archive |-> archive]

PackagePool ==
    { Package("File", "f1", TRUE, Archive(TRUE, <<EDep1, EExport>>)),
      Package("File", "f2", TRUE, Archive(TRUE, <<EExportNested>>)),
      Package("File", "f3", FALSE, Archive(TRUE, <<>>)),
      Package("File", "f4", TRUE, Archive(FALSE, <<>>)),
      Package("File", "f5", TRUE, Archive(TRUE, <<EDep2, ETarError, EExport>>)),
      Package("Url", "u1", TRUE, Archive(TRUE, <<ESibling, EDep2>>)),
      Package("Url", "u2", FALSE, Archive(TRUE, <<>>)) }

\* ------------------------------------------------------------------ state

VARIABLES
    phase,              \* "new", "scan", "ready", "invalid", "panicked"
    out_dir,            \* OUT_DIR
    manifest_dir,       \* CARGO_MANIFEST_DIR
    http_client,        \* Depot.http_client: "Ok" or "Err"
    packages,           \* the Packages passed to deliver: crate name -> Package
    asked,              \* the crate names the direct callers of get ask for
    unpack_mtime,       \* the modification time an unpacked file is left with
    files,              \* the file system: path -> [data, mtime]
    new_result,         \* what Recipients::with_env returned
    deps_dir,           \* Recipients.deps_dir
    relative_deps_dir,  \* Recipients.relative_deps_dir
    addresses,          \* Recipients.addresses: key -> Address
    scanned,            \* the directory entries read_dir found
    constructions,      \* number of times Recipients was constructed
    todo,               \* directory entries read_dir has not yielded yet
    events,             \* lines printed, sources fetched and files written, in order
    gets,               \* number of direct get calls made
    last_get,           \* the last direct get call: name, result, signal
    resolved,           \* the names get returned a destination for
    dpc,                \* Depot::deliver: "idle", "running", "returned"
    pending,            \* packages the loop of deliver has not reached yet
    attempts,           \* the packages deliver processed, with each outcome
    deliver_result,     \* what Depot::deliver returned
    callers             \* the concurrent callers of get: thread -> position

inputs == <<out_dir, manifest_dir, http_client, packages, asked, unpack_mtime>>
recipientsPaths == <<deps_dir, relative_deps_dir, scanned, constructions>>
getVars == <<gets, last_get, resolved>>
deliverVars == <<dpc, pending, attempts, deliver_result>>

vars == <<phase, out_dir, manifest_dir, http_client, packages, asked, unpack_mtime,
          files, new_result, deps_dir, relative_deps_dir, addresses, scanned,
          constructions, todo, events, gets,
          last_get, resolved, dpc, pending, attempts, deliver_result, callers>>

\* The entries of directory d.
DirEntries(fs, d) ==
    { [file_name |-> f[Len(f)], metadata |-> fs[f].mtime] :
        f \in { g \in DOMAIN fs : g # <<>> /\ SubSeq(g, 1, Len(g) - 1) = d } }

\* A deps directory d holding the files of names, with modification times mt.
FilesIn(d, names, mt) ==
    [f \in { d \o <<n>> : n \in names } |->
        [data |-> "placeholder", mtime |-> mt[f[Len(f)]]]]

\* The deps directories of at most MaxFiles of the names, in directory d.
DepsDirsOf(d, pool) ==
    { FilesIn(d, names, mt) :
        <<names, mt>> \in
          { nm \in UNION { {S} \X [S -> UNION { Mtimes(n) : n \in pool }] :
                            S \in { T \in SUBSET pool : Cardinality(T) <= MaxFiles } } :
              \A n \in nm[1] : nm[2][n] \in Mtimes(n) } }

MainOutDir == <<RootDir, t, b, p, o>>
MainDepsDir == <<RootDir, t, deps>>
MainManifestDir == <<RootDir, t>>

\* The state before Recipients::with_env, of a program given these inputs.
Start(od, md, fs, client, pkgs, names, cs, wt) ==
    /\ phase = "new"
    /\ asked = names
    /\ unpack_mtime = wt
    /\ constructions = 0
    /\ out_dir = od
    /\ manifest_dir = md
    /\ http_client = client
    /\ packages = pkgs
    /\ files = fs
    /\ new_result = None
    /\ deps_dir = <<>>
    /\ relative_deps_dir = None
    /\ addresses = <<>>
    /\ scanned = {}
    /\ todo = {}
    /\ events = <<>>
    /\ gets = 0
    /\ last_get = None
    /\ resolved = {}
    /\ dpc = "idle"
    /\ pending = {}
    /\ attempts = <<>>
    /\ deliver_result = None
    /\ callers = cs

\* Any OUT_DIR and CARGO_MANIFEST_DIR, over one small deps directory.
InitEnv ==
    \E od \in OutDirs, md \in ManifestDirs, d \in ExistingDirs :
        Start(od, md,
              FilesIn(d, {LibA1, LibAB}, [n \in {LibA1, LibAB} |-> MtimeOk(1)]),
              "Ok", <<>>, {CrateAB, CrateADashB}, <<>>, MtimeErr)

\* Any deps directory, under the main OUT_DIR.
InitScan ==
    \E fs \in DepsDirsOf(MainDepsDir, FileNames) :
        Start(MainOutDir, MainManifestDir, fs, "Ok", <<>>, {CrateA, CrateADashB, CrateZ},
              <<>>, MtimeErr)

\* The deps directory of the deliveries: one placeholder for crate a, one
\* for crate a_b.
TwoPlaceholders ==
    FilesIn(MainDepsDir, {LibA1, LibAB}, [n \in {LibA1, LibAB} |-> MtimeOk(1)])

\* One File package of any archive of at most MaxEntries entries (a URL
\* package hands its response to the same unpack).
InitUnpack ==
    \E archive \in Archives :
        Start(MainOutDir, MainManifestDir, TwoPlaceholders, "Ok",
              [c \in {CrateA} |-> Package("File", "src", TRUE, archive)], {}, <<>>,
              MtimeOk(MaxTime + 1))

\* At most MaxPackages packages, of any crate names, and either Depot.
InitDeliver ==
    \E client \in {"Ok", "Err"}, wt \in {MtimeErr, MtimeOk(MaxTime + 1)} :
    \E S \in { T \in SUBSET CrateNames : Cardinality(T) <= MaxPackages } :
    \E pkgs \in [S -> PackagePool] :
        Start(MainOutDir, MainManifestDir, TwoPlaceholders, client, pkgs, {CrateA}, <<>>,
              wt)

\* A deps directory with the placeholder of crate a alone, and a package
\* for a whose archive has a member named as a placeholder of crate a_b.
InitSnapshot ==
    Start(MainOutDir, MainManifestDir,
          FilesIn(MainDepsDir, {LibA1}, [n \in {LibA1} |-> MtimeOk(1)]), "Ok",
          [c \in {CrateA} |->
              Package("File", "f6", TRUE, Archive(TRUE, <<ESibling, EExport>>))],
          {CrateA, CrateAB}, <<>>, MtimeOk(MaxTime + 1))

Init == InitEnv \/ InitScan \/ InitUnpack \/ InitDeliver \/ InitSnapshot

\* ------------------------------------------------------------ construction

\* Address::new
Address_new(file_name, metadata) ==
    [file_name |-> file_name, last_modified |-> metadata, is_watched |-> FALSE]

\* An is_newer that lets an equal timestamp lose.
is_newer_strict(self, other) ==
    IF self.last_modified.ok /\ other.last_modified.ok
    THEN self.last_modified.val > other.last_modified.val
    ELSE TRUE

\* An is_newer that takes an unknown timestamp for older.
is_newer_known(self, other) ==
    IF self.last_modified.ok /\ other.last_modified.ok
    THEN self.last_modified.val >= other.last_modified.val
    ELSE FALSE

\* An is_newer that compares the two times the other way round.
is_newer_reversed(self, other) ==
    IF self.last_modified.ok /\ other.last_modified.ok
    THEN self.last_modified.val <= other.last_modified.val
    ELSE TRUE

\* Address::is_newer
is_newer(self, other) ==
    IF self.last_modified.ok /\ other.last_modified.ok
    THEN self.last_modified.val >= other.last_modified.val
    ELSE TRUE

\* Recipients::with_env and the start of Recipients::with_path: the deps
\* directory, the relative deps directory, and read_dir (whose unwrap panics
\* when the directory does not exist).
with_env ==
    /\ phase = "new"
    /\ constructions' = 1
    /\ LET r == get_deps_dir(out_dir)
       IN  IF ~r.ok
           THEN /\ phase' = "invalid"
                /\ new_result' = Some(r)
                /\ UNCHANGED <<deps_dir, relative_deps_dir, scanned, todo>>
           ELSE /\ deps_dir' = r.val
                /\ relative_deps_dir' = strip_prefix(r.val, manifest_dir)
                /\ IF r.val \in ExistingDirs
                   THEN /\ phase' = "scan"
                        /\ scanned' = DirEntries(files, r.val)
                        /\ todo' = DirEntries(files, r.val)
                   ELSE /\ phase' = "panicked"
                        /\ UNCHANGED <<scanned, todo>>
                /\ UNCHANGED new_result
    /\ UNCHANGED <<inputs, files, addresses, events, getVars, deliverVars, callers>>

Insert(map, key, value) ==
    [k \in DOMAIN map \cup {key} |-> IF k = key THEN value ELSE map[k]]

\* A scan that keeps the existing entry without saying so.
ScanEntry_quiet(addrs, file) ==
    LET key == ParseKey(file.file_name)
        info == Address_new(file.file_name, file.metadata)
    IN  IF ~key.ok THEN [addresses |-> addrs, printed |-> <<>>]
        ELSE IF key.val \notin DOMAIN addrs
        THEN [addresses |-> Insert(addrs, key.val, info), printed |-> <<>>]
        ELSE IF is_newer(addrs[key.val], info)
        THEN [addresses |-> addrs, printed |-> <<>>]
        ELSE [addresses |-> Insert(addrs, key.val, info),
              printed |-> << [type |-> "replaced", key |-> key.val,
                              old |-> addrs[key.val].file_name,
                              new |-> info.file_name] >>]

\* What one iteration of the loop of Recipients::with_path does with the
\* directory entry file: the index and the lines printed afterwards.
ScanEntry(addrs, file) ==
    LET key == ParseKey(file.file_name)
        info == Address_new(file.file_name, file.metadata)
    IN  IF ~key.ok THEN [addresses |-> addrs, printed |-> <<>>]
        ELSE IF key.val \notin DOMAIN addrs
        THEN [addresses |-> Insert(addrs, key.val, info), printed |-> <<>>]
        ELSE IF is_newer(addrs[key.val], info)
        THEN [addresses |-> addrs,
              printed |-> << [type |-> "ignored", key |-> key.val,
                              file |-> info.file_name] >>]
        ELSE [addresses |-> Insert(addrs, key.val, info),
              printed |-> << [type |-> "replaced", key |-> key.val,
                              old |-> addrs[key.val].file_name,
                              new |-> info.file_name] >>]

\* One iteration of the loop over read_dir, which yields the entries in an
\* order the operating system chooses.
ScanStep ==
    /\ phase = "scan"
    /\ \E file \in todo :
         LET r == ScanEntry(addresses, file)
         IN  /\ addresses' = r.addresses
             /\ events' = events \o r.printed
             /\ todo' = todo \ {file}
    /\ UNCHANGED <<phase, inputs, files, new_result, recipientsPaths, getVars,
                   deliverVars, callers>>

\* The end of the loop: with_path returns the Recipients.
ScanDone ==
    /\ phase = "scan"
    /\ todo = {}
    /\ phase' = "ready"
    /\ new_result' = Some(Ok("Recipients"))
    /\ UNCHANGED <<inputs, files, recipientsPaths, addresses, todo, events,
                   getVars, deliverVars, callers>>

\* -------------------------------------------------------------- resolution

\* A watch that reports the first watch without recording it.
watch_forgets(library) ==
    [ret |-> ~library.is_watched, is_watched |-> library.is_watched]

\* Address::watch: the load, and the swap when the load read false.
watch(library) ==
    IF library.is_watched
    THEN [ret |-> FALSE, is_watched |-> library.is_watched]
    ELSE [ret |-> ~library.is_watched, is_watched |-> TRUE]

\* A get that looks the name up as it was given.
normalize_not(name) == name

\* name.replace('-', "_")
normalize(name) == replace(name, "-", "_")

\* A signal that carries the destination whatever the relative directory.
signal_path_dest(rel, dest, file_name) == dest

\* The path Recipients::get prints when the watch is the first one.
signal_path(rel, dest, file_name) ==
    IF rel.ok THEN join(rel.val, <<file_name>>) ELSE dest

\* A get that prints the line on every resolution.
get_announces(addrs, name) ==
    LET key == normalize(name)
    IN  IF key \notin DOMAIN addrs
        THEN [ret |-> None, addresses |-> addrs, printed |-> <<>>]
        ELSE LET library == addrs[key]
                 dest == join(deps_dir, <<library.file_name>>)
                 w == watch(library)
             IN  [ret |-> Some(dest),
                  addresses |-> [addrs EXCEPT ![key].is_watched = w.is_watched],
                  printed |-> << [type |-> "rerun-if-changed",
                                  path |-> signal_path(relative_deps_dir, dest,
                                                       library.file_name)] >>]

\* A get that returns the destination to the first caller alone.
get_once(addrs, name) ==
    LET key == normalize(name)
    IN  IF key \notin DOMAIN addrs
        THEN [ret |-> None, addresses |-> addrs, printed |-> <<>>]
        ELSE LET library == addrs[key]
                 dest == join(deps_dir, <<library.file_name>>)
                 w == watch(library)
             IN  [ret |-> IF w.ret THEN Some(dest) ELSE None,
                  addresses |-> [addrs EXCEPT ![key].is_watched = w.is_watched],
                  printed |-> IF w.ret
                              THEN << [type |-> "rerun-if-changed",
                                       path |-> signal_path(relative_deps_dir, dest,
                                                            library.file_name)] >>
                              ELSE <<>>]

\* Recipients::get: the value returned, the index and the lines printed.
get(addrs, name) ==
    LET key == normalize(name)
    IN  IF key \notin DOMAIN addrs
        THEN [ret |-> None, addresses |-> addrs, printed |-> <<>>]
        ELSE LET library == addrs[key]
                 dest == join(deps_dir, <<library.file_name>>)
                 w == watch(library)
             IN  [ret |-> Some(dest),
                  addresses |-> [addrs EXCEPT ![key].is_watched = w.is_watched],
                  printed |-> IF w.ret
                              THEN << [type |-> "rerun-if-changed",
                                       path |-> signal_path(relative_deps_dir, dest,
                                                            library.file_name)] >>
                              ELSE <<>>]

\* A direct call of Recipients::get.
Get ==
    /\ phase = "ready"
    /\ dpc # "running"
    /\ gets < MaxGets
    /\ \E name \in asked :
         LET r == get(addresses, name)
         IN  /\ addresses' = r.addresses
             /\ events' = events \o r.printed
             /\ last_get' = Some([name |-> name, ret |-> r.ret,
                                  fired |-> r.printed # <<>>])
             /\ resolved' = IF r.ret.ok THEN resolved \cup {name} ELSE resolved
    /\ gets' = gets + 1
    /\ UNCHANGED <<phase, inputs, files, new_result, recipientsPaths, todo,
                   deliverVars, callers>>

\* ---------------------------------------------------------------- delivery

\* ArchiveError
GzipError(crate_name) == [kind |-> "GzipError", crate_name |-> crate_name]
TarError(crate_name) == [kind |-> "TarError", crate_name |-> crate_name]
TarPathError(crate_name) == [kind |-> "TarPathError", crate_name |-> crate_name]
TarFileNameError(crate_name, path) ==
    [kind |-> "TarFileNameError", crate_name |-> crate_name, path |-> path]

\* DepotError
FileError(crate_name, source) ==
    [kind |-> "FileError", crate_name |-> crate_name, source |-> source]
TlsError == [kind |-> "TlsError", err |-> "shared"]
HttpError(crate_name, source) ==
    [kind |-> "HttpError", crate_name |-> crate_name, source |-> source]
MissingLibraryFile(crate_name) ==
    [kind |-> "MissingLibraryFile", crate_name |-> crate_name]
ArchiveError(err) == [kind |-> "ArchiveError", err |-> err]

\* An unpack that makes a sibling of every entry, the export member too.
entry_dest_sibling(dest, file_name) == with_file_name(dest, file_name)

\* The path an entry named file_name is unpacked to.
entry_dest(dest, file_name) ==
    IF file_name = DEFAULT_EXPORT THEN dest ELSE with_file_name(dest, file_name)

\* An unpack that passes over an entry whose path has no file name.
RECURSIVE unpack_entries_skip(_, _, _, _)
unpack_entries_skip(crate_name, entries, dest, written) ==
    IF entries = <<>> THEN [ret |-> Ok("()"), written |-> written]
    ELSE LET entry == Head(entries)
             file_name == file_name_of(entry.path)
         IN  IF entry.status = "TarError"
             THEN [ret |-> Err(TarError(crate_name)), written |-> written]
             ELSE IF entry.status = "TarPathError"
             THEN [ret |-> Err(TarPathError(crate_name)), written |-> written]
             ELSE IF ~file_name.ok
             THEN unpack_entries_skip(crate_name, Tail(entries), dest, written)
             ELSE IF entry.status = "UnpackError"
             THEN [ret |-> Err(TarError(crate_name)), written |-> written]
             ELSE IF entry.status = "UnpackTruncated"
             THEN [ret |-> Err(TarError(crate_name)),
                   written |-> Append(written,
                       [path |-> entry_dest(dest, file_name.val), data |-> "truncated"])]
             ELSE unpack_entries_skip(crate_name, Tail(entries), dest,
                     Append(written,
                       [path |-> entry_dest(dest, file_name.val), data |-> entry.data]))

\* The loop of Depot::unpack over the entries of the archive: the result and
\* the files written, in order.  An entry whose unpack fails midway leaves a
\* truncated file.
RECURSIVE unpack_entries(_, _, _, _)
unpack_entries(crate_name, entries, dest, written) ==
    IF entries = <<>> THEN [ret |-> Ok("()"), written |-> written]
    ELSE LET entry == Head(entries)
             file_name == file_name_of(entry.path)
         IN  IF entry.status = "TarError"
             THEN [ret |-> Err(TarError(crate_name)), written |-> written]
             ELSE IF entry.status = "TarPathError"
             THEN [ret |-> Err(TarPathError(crate_name)), written |-> written]
             ELSE IF ~file_name.ok
             THEN [ret |-> Err(TarFileNameError(crate_name, entry.path)),
                   written |-> written]
             ELSE IF entry.status = "UnpackError"
             THEN [ret |-> Err(TarError(crate_name)), written |-> written]
             ELSE IF entry.status = "UnpackTruncated"
             THEN [ret |-> Err(TarError(crate_name)),
                   written |-> Append(written,
                       [path |-> entry_dest(dest, file_name.val), data |-> "truncated"])]
             ELSE unpack_entries(crate_name, Tail(entries), dest,
                     Append(written,
                       [path |-> entry_dest(dest, file_name.val), data |-> entry.data]))

\* Depot::unpack
unpack(crate_name, archive, dest) ==
    IF ~archive.gzip_ok
    THEN [ret |-> Err(GzipError(crate_name)), written |-> <<>>]
    ELSE unpack_entries(crate_name, archive.entries, dest, <<>>)

\* What ? does to the result of unpack: From<ArchiveError> for DepotError.
from_archive(r, fetched) ==
    [ret |-> IF r.ret.ok THEN r.ret ELSE Err(ArchiveError(r.ret.err)),
     fetched |-> fetched, written |-> r.written]

\* What File::open and HttpClient::execute leave in the log: the source
\* opened, the request issued.
fetch_event(type, crate_name, source) ==
    [type |-> type, crate_name |-> crate_name, source |-> source]

\* A deliver_helper that makes itself a client when the Depot has none.
deliver_helper_retry(client, crate_name, package, dest) ==
    LET type == IF package.kind = "File" THEN "open" ELSE "GET"
        fetched == << fetch_event(type, crate_name, package.source) >>
    IN  IF ~package.fetch_ok
        THEN [ret |-> Err(IF package.kind = "File"
                          THEN FileError(crate_name, package.source)
                          ELSE HttpError(crate_name, package.source)),
              fetched |-> fetched, written |-> <<>>]
        ELSE from_archive(unpack(crate_name, package.archive, dest), fetched)

\* Depot::deliver_helper
deliver_helper(client, crate_name, package, dest) ==
    IF package.kind = "File"
    THEN LET fetched == << fetch_event("open", crate_name, package.source) >>
         IN  IF ~package.fetch_ok
             THEN [ret |-> Err(FileError(crate_name, package.source)),
                   fetched |-> fetched, written |-> <<>>]
             ELSE from_archive(unpack(crate_name, package.archive, dest), fetched)
    ELSE IF client # "Ok"
         THEN [ret |-> Err(TlsError), fetched |-> <<>>, written |-> <<>>]
         ELSE LET fetched == << fetch_event("GET", crate_name, package.source) >>
              IN  IF ~package.fetch_ok
                  THEN [ret |-> Err(HttpError(crate_name, package.source)),
                        fetched |-> fetched, written |-> <<>>]
                  ELSE from_archive(unpack(crate_name, package.archive, dest), fetched)

\* A deliver that passes over a package without a destination.
deliver_one_skips(client, addrs, crate_name, package) ==
    LET g == get(addrs, crate_name)
    IN  IF ~g.ret.ok
        THEN [ret |-> Ok("()"), dest |-> g.ret,
              addresses |-> g.addresses, printed |-> g.printed, fetched |-> <<>>,
              written |-> <<>>]
        ELSE LET h == deliver_helper(client, crate_name, package, g.ret.val)
             IN  [ret |-> h.ret, dest |-> g.ret, addresses |-> g.addresses,
                  printed |-> g.printed, fetched |-> h.fetched,
                  written |-> h.written]

\* A deliver that hands the normalised name on as the crate name.
deliver_one_normalized(client, addrs, crate_name, package) ==
    LET g == get(addrs, crate_name)
    IN  IF ~g.ret.ok
        THEN [ret |-> Err(MissingLibraryFile(normalize(crate_name))), dest |-> g.ret,
              addresses |-> g.addresses, printed |-> g.printed, fetched |-> <<>>,
              written |-> <<>>]
        ELSE LET h == deliver_helper(client, normalize(crate_name), package, g.ret.val)
             IN  [ret |-> h.ret, dest |-> g.ret, addresses |-> g.addresses,
                  printed |-> g.printed, fetched |-> h.fetched,
                  written |-> h.written]

\* A deliver that enters the files it wrote into the index.
deliver_one_reindexes(client, addrs, crate_name, package) ==
    LET g == get(addrs, crate_name)
    IN  IF ~g.ret.ok
        THEN [ret |-> Err(MissingLibraryFile(crate_name)), dest |-> g.ret,
              addresses |-> g.addresses, printed |-> g.printed, fetched |-> <<>>,
              written |-> <<>>]
        ELSE LET h == deliver_helper(client, crate_name, package, g.ret.val)
                 names == { h.written[i].path[Len(h.written[i].path)] :
                              i \in 1..Len(h.written) }
                 found == { n \in names : ParseKey(n).ok }
                 keys == { ParseKey(n).val : n \in found }
             IN  [ret |-> h.ret, dest |-> g.ret,
                  addresses |->
                      [k \in DOMAIN g.addresses \cup keys |->
                          IF k \in DOMAIN g.addresses THEN g.addresses[k]
                          ELSE Address_new(CHOOSE n \in found : ParseKey(n).val = k,
                                           unpack_mtime)],
                  printed |-> g.printed, fetched |-> h.fetched,
                  written |-> h.written]

\* The body of the loop of Depot::deliver for one package: the result, the
\* index afterwards, the lines printed and the files written.
deliver_one(client, addrs, crate_name, package) ==
    LET g == get(addrs, crate_name)
    IN  IF ~g.ret.ok
        THEN [ret |-> Err(MissingLibraryFile(crate_name)), dest |-> g.ret,
              addresses |-> g.addresses, printed |-> g.printed, fetched |-> <<>>,
              written |-> <<>>]
        ELSE LET h == deliver_helper(client, crate_name, package, g.ret.val)
             IN  [ret |-> h.ret, dest |-> g.ret, addresses |-> g.addresses,
                  printed |-> g.printed, fetched |-> h.fetched,
                  written |-> h.written]

\* A write that never replaces a file that exists.
RECURSIVE apply_writes_keep(_, _)
apply_writes_keep(fs, ws) ==
    IF ws = <<>> THEN fs
    ELSE apply_writes_keep(
            IF Head(ws).path \in DOMAIN fs THEN fs
            ELSE Insert(fs, Head(ws).path,
                        [data |-> Head(ws).data, mtime |-> unpack_mtime]),
            Tail(ws))

\* The file system after the writes ws, made in order.
RECURSIVE apply_writes(_, _)
apply_writes(fs, ws) ==
    IF ws = <<>> THEN fs
    ELSE apply_writes(
            Insert(fs, Head(ws).path, [data |-> Head(ws).data, mtime |-> unpack_mtime]),
            Tail(ws))

write_events(crate_name, ws) ==
    [i \in 1..Len(ws) |->
        [type |-> "write", crate_name |-> crate_name,
         path |-> ws[i].path, data |-> ws[i].data]]

\* Depot::deliver is called: packages.packages.into_iter().
deliver_call ==
    /\ phase = "ready"
    /\ dpc = "idle"
    /\ dpc' = "running"
    /\ pending' = DOMAIN packages
    /\ UNCHANGED <<phase, inputs, files, new_result, recipientsPaths, addresses,
                   todo, events, getVars, attempts, deliver_result, callers>>

\* A loop that goes on to the next package after an error.
deliver_package_continues ==
    /\ dpc = "running"
    /\ \E crate_name \in pending :
         LET r == deliver_one(http_client, addresses, crate_name, packages[crate_name])
         IN  /\ addresses' = r.addresses
             /\ events' = events \o r.printed \o r.fetched
                                   \o write_events(crate_name, r.written)
             /\ files' = apply_writes(files, r.written)
             /\ attempts' = Append(attempts, [crate_name |-> crate_name, ret |-> r.ret])
             /\ resolved' = IF r.dest.ok THEN resolved \cup {crate_name} ELSE resolved
             /\ pending' = pending \ {crate_name}
             /\ IF r.ret.ok
                THEN UNCHANGED deliver_result
                ELSE deliver_result' = Some(r.ret)
             /\ UNCHANGED dpc
    /\ UNCHANGED <<phase, inputs, new_result, recipientsPaths, todo, gets, last_get,
                   callers>>

\* A deliver that resolves the destination after the transfer: the line of
\* the watch follows the events of the source and of the writes.
deliver_package_signals_last ==
    /\ dpc = "running"
    /\ \E crate_name \in pending :
         LET r == deliver_one(http_client, addresses, crate_name, packages[crate_name])
         IN  /\ addresses' = r.addresses
             /\ events' = events \o r.fetched \o write_events(crate_name, r.written)
                                   \o r.printed
             /\ files' = apply_writes(files, r.written)
             /\ attempts' = Append(attempts, [crate_name |-> crate_name, ret |-> r.ret])
             /\ resolved' = IF r.dest.ok THEN resolved \cup {crate_name} ELSE resolved
             /\ IF r.ret.ok
                THEN /\ pending' = pending \ {crate_name}
                     /\ UNCHANGED <<dpc, deliver_result>>
                ELSE /\ dpc' = "returned"
                     /\ deliver_result' = Some(r.ret)
                     /\ pending' = {}
    /\ UNCHANGED <<phase, inputs, new_result, recipientsPaths, todo, gets, last_get,
                   callers>>

\* One iteration of the loop of Depot::deliver; the map yields its packages
\* in an order of its own.
deliver_package ==
    /\ dpc = "running"
    /\ \E crate_name \in pending :
         LET r == deliver_one(http_client, addresses, crate_name, packages[crate_name])
         IN  /\ addresses' = r.addresses
             /\ events' = events \o r.printed \o r.fetched
                                   \o write_events(crate_name, r.written)
             /\ files' = apply_writes(files, r.written)
             /\ attempts' = Append(attempts, [crate_name |-> crate_name, ret |-> r.ret])
             /\ resolved' = IF r.dest.ok THEN resolved \cup {crate_name} ELSE resolved
             /\ IF r.ret.ok
                THEN /\ pending' = pending \ {crate_name}
                     /\ UNCHANGED <<dpc, deliver_result>>
                ELSE /\ dpc' = "returned"
                     /\ deliver_result' = Some(r.ret)
                     /\ pending' = {}
    /\ UNCHANGED <<phase, inputs, new_result, recipientsPaths, todo, gets, last_get,
                   callers>>

\* The loop of Depot::deliver ends: Ok(()).
deliver_return ==
    /\ dpc = "running"
    /\ pending = {}
    /\ dpc' = "returned"
    /\ deliver_result' = Some(Ok("()"))
    /\ UNCHANGED <<phase, inputs, files, new_result, recipientsPaths, addresses,
                   todo, events, getVars, pending, attempts, callers>>

\* ------------------------------------------------------- concurrent callers

\* The threads that call Recipients::get on one shared Recipients.
Threads == 1..MaxThreads

IdleCaller ==
    [pc |-> "idle", name |-> <<>>, key |-> <<>>, calls |-> 0, seen |-> {},
     swaps |-> 0, fired |-> {}]

\* Recipients over the two placeholders, shared by the threads, which ask
\* for one Address under both spellings of its name.
InitConcurrent ==
    Start(MainOutDir, MainManifestDir, TwoPlaceholders, "Ok", <<>>,
          {CrateAB, CrateADashB, CrateZ}, [th \in Threads |-> IdleCaller], MtimeErr)

\* The values is_watched.load(Relaxed) may read: the current one, or the
\* initial false as long as this thread has not observed true.
load_values(current, seen) ==
    IF seen THEN {TRUE} ELSE {current, FALSE}

\* A swap made of a load and a store: it returns what the load read.
swap_torn(current, loaded) == loaded

\* The value is_watched.swap(true, Relaxed) returns: the one it replaces.
swap_old(current, loaded) == current

\* Recipients::get up to the call of watch: the lookup of the normalised
\* name; an absent name returns None at once.
get_call(th) ==
    /\ phase = "ready"
    /\ callers[th].pc = "idle"
    /\ callers[th].calls < MaxGets
    /\ \E name \in asked :
         LET key == normalize(name)
         IN  callers' = [callers EXCEPT
                 ![th].calls = @ + 1,
                 ![th].name = name,
                 ![th].key = key,
                 ![th].pc = IF key \in DOMAIN addresses THEN "load" ELSE "idle"]
    /\ UNCHANGED <<phase, inputs, files, new_result, recipientsPaths, addresses,
                   todo, events, getVars, deliverVars>>

\* Address::watch, the load: when it reads true, watch returns false and get
\* returns the destination without printing.
watch_load(th) ==
    /\ callers[th].pc = "load"
    /\ LET key == callers[th].key
       IN  \E v \in load_values(addresses[key].is_watched, key \in callers[th].seen) :
             callers' = [callers EXCEPT
                 ![th].pc = IF v THEN "idle" ELSE "swap",
                 ![th].seen = IF v THEN @ \cup {key} ELSE @]
    /\ UNCHANGED <<phase, inputs, files, new_result, recipientsPaths, addresses,
                   todo, events, getVars, deliverVars>>

\* Address::watch, the swap: watch returns true when the swap returned
\* false, and get goes on to print; otherwise get returns the destination.
watch_swap(th) ==
    /\ callers[th].pc = "swap"
    /\ LET key == callers[th].key
           first == ~swap_old(addresses[key].is_watched, FALSE)
       IN  /\ addresses' = [addresses EXCEPT ![key].is_watched = TRUE]
           /\ callers' = [callers EXCEPT
                 ![th].pc = IF first THEN "print" ELSE "idle",
                 ![th].seen = @ \cup {key},
                 ![th].swaps = @ + 1,
                 ![th].fired = IF first THEN @ \cup {key} ELSE @]
    /\ UNCHANGED <<phase, inputs, files, new_result, recipientsPaths, todo, events,
                   getVars, deliverVars>>

\* The println of Recipients::get, after a first watch.
get_print(th) ==
    /\ callers[th].pc = "print"
    /\ LET library == addresses[callers[th].key]
           dest == join(deps_dir, <<library.file_name>>)
       IN  events' = Append(events,
                        [type |-> "rerun-if-changed",
                         path |-> signal_path(relative_deps_dir, dest,
                                              library.file_name)])
    /\ callers' = [callers EXCEPT ![th].pc = "idle"]
    /\ UNCHANGED <<phase, inputs, files, new_result, recipientsPaths, addresses,
                   todo, getVars, deliverVars>>

NextConcurrent ==
    \/ with_env
    \/ ScanStep
    \/ ScanDone
    \/ \E th \in Threads : get_call(th)
    \/ \E th \in Threads : watch_load(th)
    \/ \E th \in Threads : watch_swap(th)
    \/ \E th \in Threads : get_print(th)

SpecConcurrent == InitConcurrent /\ [][NextConcurrent]_vars

\* --------------------------------------------------------- a second scan

\* The packages of the deliveries that are followed by a second scan.
RescanPool ==
    { Package("File", "f1", TRUE, Archive(TRUE, <<EDep1, EExport>>)),
      Package("File", "f2", TRUE, Archive(TRUE, <<EExportNested>>)),
      Package("File", "f6", TRUE, Archive(TRUE, <<ESibling, EExport>>)) }

\* Deps directories where files share a name, packages for the names, and
\* any modification time for the files the delivery writes.
InitRescan ==
    \E fs \in DepsDirsOf(MainDepsDir, {LibA1, LibA2, LibAB}), wt \in WriteTimes :
    \E S \in { T \in SUBSET {CrateA, CrateAB} : Cardinality(T) <= MaxPackages } :
    \E pkgs \in [S -> RescanPool] :
        Start(MainOutDir, MainManifestDir, fs, "Ok", pkgs, {}, <<>>, wt)

\* Recipients is constructed again on the same deps directory, after a
\* delivery that returned Ok: with_path reads the directory as it is now.
rescan ==
    /\ phase = "ready"
    /\ constructions = 1
    /\ dpc = "returned"
    /\ deliver_result = Some(Ok("()"))
    /\ constructions' = 2
    /\ phase' = "scan"
    /\ addresses' = <<>>
    /\ scanned' = DirEntries(files, deps_dir)
    /\ todo' = DirEntries(files, deps_dir)
    /\ UNCHANGED <<inputs, files, new_result, deps_dir, relative_deps_dir, events,
                   getVars, deliverVars, callers>>

NextRescan ==
    \/ with_env
    \/ ScanStep
    \/ ScanDone
    \/ deliver_call
    \/ deliver_package
    \/ deliver_return
    \/ rescan

SpecRescan == InitRescan /\ [][NextRescan]_vars

Next ==
    \/ with_env
    \/ ScanStep
    \/ ScanDone
    \/ Get
    \/ deliver_call
    \/ deliver_package
    \/ deliver_return

Spec == Init /\ [][Next]_vars

\* ================================================================== claims

\* NAME and HASH of the placeholder pattern lib<NAME>-<HASH>.rlib: NAME is
\* the text between the prefix and the first hyphen.
PatternNames == { <<"a">>, <<"a", "_", "b">>, <<"x">> }
PatternHashes == { <<"1">>, <<"2">>, <<"3">> }
IsPlaceholder(file_name, NAME, HASH) ==
    file_name = lib \o NAME \o <<"-">> \o HASH \o rlib

\* The file names lib<NAME>-<HASH>.rlib of each NAME.
PlaceholdersOf ==
    [NAME \in PatternNames |->
        { lib \o NAME \o <<"-">> \o HASH \o rlib : HASH \in PatternHashes }]

\* NAME with every underscore replaced by a hyphen.
Hyphenated(NAME) == replace(NAME, "_", "-")

\* The directory entries the scan indexes under key.
IndexedUnder(entries, key) ==
    { e \in entries : ParseKey(e.file_name) = Some(key) }

\* The value get(name) returns in the current state.
GetRet(name) == get(addresses, name).ret

\* C1 as stated: for every placeholder lib<NAME>-<HASH>.rlib of the scanned
\* directory, get(NAME) and get(NAME with hyphens) both return Some of
\* deps_dir joined with that placeholder's own file name.
C1_Original ==
    phase = "ready" =>
        \A e \in scanned : \A NAME \in PatternNames, HASH \in PatternHashes :
            IsPlaceholder(e.file_name, NAME, HASH) =>
                /\ GetRet(NAME) = Some(join(deps_dir, <<e.file_name>>))
                /\ GetRet(Hyphenated(NAME)) = Some(join(deps_dir, <<e.file_name>>))

\* C1, amended: for every placeholder lib<NAME>-<HASH>.rlib of the scanned
\* directory, get(NAME) and get(NAME with hyphens) return Some of the same
\* destination, deps_dir joined with the file name of a directory entry
\* indexed under NAME: the placeholder's own name when no other entry is
\* indexed under NAME.  Every direct call made returned that value.
C1_SameDestination ==
    phase = "ready" =>
        LET key == [f \in { w.file_name : w \in scanned } |-> ParseKey(f)]
        IN  \A e \in scanned : \A NAME \in PatternNames :
                e.file_name \in PlaceholdersOf[NAME] =>
                    LET ret == GetRet(NAME)
                        indexed == { f \in DOMAIN key : key[f] = Some(NAME) }
                    IN  /\ ret.ok
                        /\ GetRet(Hyphenated(NAME)) = ret
                        /\ \E f \in indexed : ret.val = join(deps_dir, <<f>>)
                        /\ indexed = {e.file_name} =>
                              ret.val = join(deps_dir, <<e.file_name>>)
                        /\ (/\ last_get.ok
                            /\ last_get.val.name \in {NAME, Hyphenated(NAME)}) =>
                              /\ last_get.val.ret.ok
                              /\ \E f \in indexed :
                                    last_get.val.ret.val = join(deps_dir, <<f>>)

\* C1's case: get was called with the hyphenated name a-b and returned the
\* path of the placeholder liba_b-1.rlib.
C1_Witness ==
    /\ phase = "ready"
    /\ last_get.ok
    /\ last_get.val.name = CrateADashB
    /\ \E e \in scanned :
         /\ e.file_name = LibAB
         /\ last_get.val.ret = Some(join(deps_dir, <<LibAB>>))

\* The path of the change-tracking line of the Address under key.
SignalPath(key) ==
    signal_path(relative_deps_dir, join(deps_dir, <<addresses[key].file_name>>),
                addresses[key].file_name)

\* The number of change-tracking lines printed for the Address under key.
SignalCount(key) ==
    Cardinality({ i \in 1..Len(events) :
                    /\ events[i].type = "rerun-if-changed"
                    /\ events[i].path = SignalPath(key) })

C2_Counted ==
    phase = "ready" =>
        \A key \in DOMAIN addresses :
            SignalCount(key) = IF addresses[key].is_watched THEN 1 ELSE 0

C2_Step ==
    phase = "ready" =>
        /\ \A key \in DOMAIN addresses :
             /\ addresses[key].is_watched => addresses'[key].is_watched
             /\ SignalCount(key)' = SignalCount(key) +
                    (IF ~addresses[key].is_watched /\ addresses'[key].is_watched
                     THEN 1 ELSE 0)
        /\ gets' = gets + 1 =>
             LET key == replace(last_get'.val.name, "-", "_")
             IN  last_get'.val.fired =
                    (key \in DOMAIN addresses /\ ~addresses[key].is_watched)

Observers(key) == { th \in DOMAIN callers : key \in callers[th].seen }

\* The threads whose watch of the Address under key returned true.
Firers(key) == { th \in DOMAIN callers : key \in callers[th].fired }

\* C3: when several threads call get for names of one Address, under every
\* interleaving of the loads and the swaps at most one of them observes the
\* transition, and once every caller has returned and some caller resolved
\* the Address, exactly one observed it and exactly one line is printed.
C3_OneSignal ==
    phase = "ready" =>
        \A key \in DOMAIN addresses :
            /\ SignalCount(key) <= 1
            /\ Cardinality(Firers(key)) <= 1
            /\ (/\ \A th \in DOMAIN callers : callers[th].pc = "idle"
                /\ Observers(key) # {})
               => /\ SignalCount(key) = 1
                  /\ Cardinality(Firers(key)) = 1

\* C3's case: two threads both ran the swap on one Address, and all
\* returned.
C3_Witness ==
    /\ phase = "ready"
    /\ \A th \in DOMAIN callers : callers[th].pc = "idle"
    /\ Cardinality({ th \in DOMAIN callers : callers[th].swaps >= 1 }) >= 2
    /\ SignalCount(CrateAB) = 1

\* The directory entry the loop of the scan takes in this step.
Taken == CHOOSE file \in todo \ todo' : TRUE

\* Whether this step is an iteration of the scan whose entry collides with
\* an entry of the index.
Collides ==
    /\ phase = "scan"
    /\ todo' # todo
    /\ ParseKey(Taken.file_name).ok
    /\ ParseKey(Taken.file_name).val \in DOMAIN addresses

\* The entry of the index the taken entry collides with.
Existing == addresses[ParseKey(Taken.file_name).val]
Survivor == addresses'[ParseKey(Taken.file_name).val]

C4_Step ==
    (Collides /\ Existing.last_modified.ok /\ Taken.metadata.ok) =>
        Survivor =
            IF Existing.last_modified.val >= Taken.metadata.val
            THEN Existing
            ELSE [file_name |-> Taken.file_name, last_modified |-> Taken.metadata,
                  is_watched |-> FALSE]

C4_Max ==
    phase \in {"scan", "ready"} =>
        \A key \in DOMAIN addresses :
            LET seen == IndexedUnder(scanned \ todo, key)
            IN  (\A e \in seen : e.metadata.ok) =>
                    /\ addresses[key].last_modified.ok
                    /\ \A e \in seen :
                         addresses[key].last_modified.val >= e.metadata.val
                    /\ \E e \in seen :
                         /\ e.file_name = addresses[key].file_name
                         /\ e.metadata = addresses[key].last_modified

\* C4: when an incoming file collides with an entry of the index and both
\* modification times are known, the one with the greater time survives and
\* the existing one survives a tie; so whatever the order of enumeration,
\* the survivor of files with known times has the greatest time among them.
C4_NewestSurvives == []C4_Max /\ [][C4_Step]_vars

\* C4's case: of two files of key a with known times, the older was
\* enumerated first and the newer replaced it.
C4_Witness ==
    /\ phase = "ready"
    /\ \E e1, e2 \in IndexedUnder(scanned, CrateA) :
         /\ e1.metadata.ok /\ e2.metadata.ok
         /\ e1.metadata.val < e2.metadata.val
         /\ addresses[CrateA].file_name = e2.file_name
         /\ \E i \in 1..Len(events) :
              /\ events[i].type = "replaced"
              /\ events[i].old = e1.file_name
              /\ events[i].new = e2.file_name

\* Whether the collision of this step has an unknown modification time.
CollidesUnknown ==
    Collides /\ (~Existing.last_modified.ok \/ ~Taken.metadata.ok)

C5_OriginalStep == CollidesUnknown => Survivor.file_name = Taken.file_name

C5_Step ==
    CollidesUnknown =>
        /\ addresses' = addresses
        /\ events' = Append(events,
                       [type |-> "ignored", key |-> ParseKey(Taken.file_name).val,
                        file |-> Taken.file_name])

DiagCount(key) ==
    Cardinality({ i \in 1..Len(events) :
                    /\ events[i].type \in {"ignored", "replaced"}
                    /\ events[i].key = key })

C6_Step ==
    (phase = "scan" /\ todo' # todo) =>
        IF ~Collides THEN events' = events
        ELSE /\ Len(events') = Len(events) + 1
             /\ SubSeq(events', 1, Len(events)) = events
             /\ DOMAIN addresses' = DOMAIN addresses
             /\ \A key \in DOMAIN addresses \ {ParseKey(Taken.file_name).val} :
                  addresses'[key] = addresses[key]
             /\ LET line == events'[Len(events')]
                    key == ParseKey(Taken.file_name).val
                IN  /\ Survivor.file_name \in {Existing.file_name, Taken.file_name}
                    /\ Survivor.file_name = Existing.file_name <=>
                         line = [type |-> "ignored", key |-> key,
                                 file |-> Taken.file_name]
                    /\ Survivor.file_name = Taken.file_name <=>
                         line = [type |-> "replaced", key |-> key,
                                 old |-> Existing.file_name,
                                 new |-> Taken.file_name]

C6_Count ==
    phase \in {"scan", "ready"} =>
        /\ \A key \in DOMAIN addresses :
             DiagCount(key) = Cardinality(IndexedUnder(scanned \ todo, key)) - 1
        /\ \A i \in 1..Len(events) :
             events[i].type \in {"ignored", "replaced"} =>
                events[i].key \in DOMAIN addresses

\* C6: a collision prints exactly one line and leaves one Address under the
\* key: the 'ignored' line naming the incoming file exactly when the
\* existing entry survives, the 'replaced with' line naming the old and the
\* new file exactly when the incoming one is inserted; a file that does not
\* collide prints nothing, so n files of one key print n - 1 lines, one
\* line for two.
C6_OneDiagnostic == []C6_Count /\ [][C6_Step]_vars

\* C6's case: two files of key a were scanned, and one line was printed.
C6_Witness ==
    /\ phase = "ready"
    /\ Cardinality(IndexedUnder(scanned, CrateA)) = 2
    /\ DiagCount(CrateA) = 1
    /\ Cardinality({ i \in 1..Len(events) :
                       events[i].type \in {"ignored", "replaced"} }) = 1

\* The number of components of a path below its root: the number of its
\* ancestors.
AncestorCount(path) ==
    Len(path) - (IF path # <<>> /\ path[1] = RootDir THEN 1 ELSE 0)

\* C7: get_deps_dir(out_dir) returns the third ancestor of out_dir joined
\* with "deps" (<root>/deps for <root>/build/<pkg>/out), and InvalidOutDir
\* carrying out_dir, never a path, when out_dir has fewer than three
\* ancestors.
C7_DepsDir ==
    phase # "new" =>
        /\ IF AncestorCount(out_dir) >= 3
           THEN /\ phase # "invalid"
                /\ deps_dir = SubSeq(out_dir, 1, Len(out_dir) - 3) \o <<deps>>
                /\ new_result.ok => new_result.val.ok
           ELSE /\ phase = "invalid"
                /\ new_result =
                     Some([ok |-> FALSE,
                           err |-> [kind |-> "InvalidOutDir", out_dir |-> out_dir]])
                /\ deps_dir = <<>>
                /\ addresses = <<>>
        /\ out_dir = <<RootDir, t, b, p, o>> => deps_dir = <<RootDir, t, deps>>
        /\ out_dir = <<t, b, p, o>> => deps_dir = <<t, deps>>

\* C7's case: /p/o has two ancestors, /p and /, and with_env returned
\* InvalidOutDir.
C7_Witness ==
    /\ out_dir = <<RootDir, p, o>>
    /\ phase = "invalid"
    /\ new_result.ok
    /\ ~new_result.val.ok

\* Whether this step is an iteration of the loop of deliver, and the package
\* it takes.
Attempts == attempts' # attempts
Attempted == attempts'[Len(attempts')]
NoAddress(crate_name) == replace(crate_name, "-", "_") \notin DOMAIN addresses

C8_Step ==
    /\ (Attempts /\ NoAddress(Attempted.crate_name)) =>
          /\ deliver_result' =
               Some([ok |-> FALSE,
                     err |-> [kind |-> "MissingLibraryFile",
                              crate_name |-> Attempted.crate_name]])
          /\ dpc' = "returned"
          /\ files' = files
          /\ events' = events
          /\ addresses' = addresses
    /\ dpc = "returned" => (attempts' = attempts /\ files' = files)

\* C8: when a package's crate name has no Address, deliver returns
\* MissingLibraryFile(crate_name) in that iteration: nothing is written or
\* printed for the package, no later package is processed, and the files
\* written for earlier packages stay as written.
C8_MissingLibraryFile == [][C8_Step]_vars

\* C8's case: one package was delivered, the next had no Address.
C8_Witness ==
    /\ dpc = "returned"
    /\ Len(attempts) = 2
    /\ attempts[1].ret.ok
    /\ ~attempts[2].ret.ok
    /\ attempts[2].ret.err.kind = "MissingLibraryFile"
    /\ \E i \in 1..Len(events) :
         /\ events[i].type = "write"
         /\ events[i].crate_name = attempts[1].crate_name
         /\ files[events[i].path].data = events[i].data

\* The last write to the path of the i-th event.
LastWrite(path) ==
    events[CHOOSE i \in 1..Len(events) :
             /\ events[i].type = "write"
             /\ events[i].path = path
             /\ \A j \in (i + 1)..Len(events) :
                  ~(events[j].type = "write" /\ events[j].path = path)]

\* C9: deliver is fail-fast without rollback: no package is processed twice,
\* none after one that failed, the first error is what deliver returns, Ok
\* is returned only when every package was delivered, and every file holds
\* what was last written to it.
C9_FailFast ==
    /\ \A i, j \in 1..Len(attempts) :
         attempts[i].crate_name = attempts[j].crate_name => i = j
    /\ \A i \in 1..Len(attempts) :
         /\ attempts[i].crate_name \in DOMAIN packages
         /\ i < Len(attempts) => attempts[i].ret.ok
    /\ (Len(attempts) > 0 /\ ~attempts[Len(attempts)].ret.ok) =>
         /\ dpc = "returned"
         /\ deliver_result = Some(attempts[Len(attempts)].ret)
    /\ dpc = "returned" <=> deliver_result.ok
    /\ (deliver_result.ok /\ deliver_result.val.ok) =>
         /\ { attempts[i].crate_name : i \in 1..Len(attempts) } = DOMAIN packages
         /\ \A i \in 1..Len(attempts) : attempts[i].ret.ok
    /\ (deliver_result.ok /\ ~deliver_result.val.ok) =>
         /\ Len(attempts) > 0
         /\ deliver_result.val = attempts[Len(attempts)].ret
    /\ \A i \in 1..Len(events) :
         events[i].type = "write" =>
            /\ events[i].path \in DOMAIN files
            /\ files[events[i].path].data = LastWrite(events[i].path).data

\* C9's case: after one package was delivered, the archive of the next
\* failed at its second entry; its first entry and the files of the first
\* package are in place and its third entry was not unpacked.
C9_Witness ==
    /\ dpc = "returned"
    /\ Len(attempts) = 2
    /\ attempts[1].ret.ok
    /\ ~attempts[2].ret.ok
    /\ attempts[2].ret.err.kind = "ArchiveError"
    /\ packages[attempts[2].crate_name].archive.entries = <<EDep2, ETarError, EExport>>
    /\ <<RootDir, t, deps, D2>> \in DOMAIN files
    /\ files[<<RootDir, t, deps, D2>>].data = "dep2"
    /\ \E i \in 1..Len(events) :
         /\ events[i].type = "write"
         /\ events[i].crate_name = attempts[1].crate_name
    /\ \A i \in 1..Len(events) :
         events[i].type = "write" => events[i].data # "export"

\* The files deliver wrote for crate_name, in order.
IsWriteOf(crate_name, e) == e.type = "write" /\ e.crate_name = crate_name
WritesOf(crate_name) ==
    LET Test(e) == IsWriteOf(crate_name, e) IN SelectSeq(events, Test)

\* The destination the claim gives the entry: the placeholder itself for
\* export.rlib, else the final component of the entry's path under the
\* directory of the placeholder.
ClaimedDest(entry, dest) ==
    IF entry.path[Len(entry.path)] = DEFAULT_EXPORT
    THEN dest
    ELSE SubSeq(dest, 1, Len(dest) - 1) \o <<entry.path[Len(entry.path)]>>

\* The placeholder of the package the loop took last.
LastCrate == attempts[Len(attempts)].crate_name
LastDest == deps_dir \o <<addresses[replace(LastCrate, "-", "_")].file_name>>
LastEntries == packages[LastCrate].archive.entries

\* C10: unpack writes each entry, in archive order, to the destination
\* itself when the entry's file name is export.rlib and else to the
\* destination's directory joined with the entry's file name alone; after a
\* successful unpack every entry was written, each file holds the last
\* entry written to it, and of [depA, depB, export.rlib] the placeholder
\* holds export.rlib's bytes and the siblings depA and depB their own.
C10_Unpack ==
    (Len(attempts) > 0 /\ ~NoAddress(LastCrate)) =>
        LET ws == WritesOf(LastCrate)
            ok == attempts[Len(attempts)].ret.ok
            whole == [i \in 1..Len(ws) |->
                        ok \/ LastEntries[i].status # "UnpackTruncated"]
            names == [i \in 1..Len(LastEntries) |->
                        LastEntries[i].path[Len(LastEntries[i].path)]]
        IN  /\ Len(ws) <= Len(LastEntries)
            /\ ok => Len(ws) = Len(LastEntries)
            /\ \A i \in 1..Len(ws) :
                 /\ ws[i].path = ClaimedDest(LastEntries[i], LastDest)
                 /\ whole[i] => ws[i].data = LastEntries[i].data
            /\ ok => \A i \in 1..Len(ws) :
                 /\ ws[i].path \in DOMAIN files
                 /\ (\A j \in (i + 1)..Len(ws) : ws[j].path # ws[i].path) =>
                        files[ws[i].path].data = LastEntries[i].data
            /\ (/\ ok
                /\ Len(LastEntries) = 3
                /\ names[3] = DEFAULT_EXPORT
                /\ names[1] # names[2]
                /\ {names[1], names[2]} \cap {DEFAULT_EXPORT, LastDest[Len(LastDest)]} = {})
               => /\ files[LastDest].data = LastEntries[3].data
                  /\ files[deps_dir \o <<names[1]>>].data = LastEntries[1].data
                  /\ files[deps_dir \o <<names[2]>>].data = LastEntries[2].data

\* C10's case: the archive [d1, n/d2, export.rlib] was unpacked for crate a
\* onto deps/liba-1.rlib.
C10_Witness ==
    /\ Len(attempts) = 1
    /\ attempts[1].ret.ok
    /\ attempts[1].crate_name = CrateA
    /\ packages[CrateA].archive.entries = <<EDep1, EDep2, EExport>>
    /\ files[<<RootDir, t, deps, LibA1>>].data = "export"
    /\ files[<<RootDir, t, deps, D1>>].data = "dep1"
    /\ files[<<RootDir, t, deps, D2>>].data = "dep2"

\* The positions in an archive of the entries named export.rlib.
Exports(entries) ==
    { n \in 1..Len(entries) : file_name_of(entries[n].path) = Some(DEFAULT_EXPORT) }

Last(S) == CHOOSE n \in S : \A k \in S : k <= n

\* The position among the events of the n-th write made for crate_name.
WriteIdx(crate_name, n) ==
    CHOOSE i \in 1..Len(events) :
        /\ IsWriteOf(crate_name, events[i])
        /\ Cardinality({ j \in 1..i : IsWriteOf(crate_name, events[j]) }) = n

\* Whether a write after the i-th event goes to path.
WrittenAfter(i, path) ==
    \E j \in (i + 1)..Len(events) : events[j].type = "write" /\ events[j].path = path

Delivered == dpc = "returned" /\ deliver_result = Some(Ok("()"))

\* C11 as stated: after a deliver that returned Ok, the placeholder of every
\* package whose archive has an export.rlib member holds the bytes of an
\* export.rlib member of that package's archive.
C11_Original ==
    Delivered =>
        \A crate_name \in DOMAIN packages :
            LET es == packages[crate_name].archive.entries
            IN  Exports(es) # {} =>
                    /\ GetRet(crate_name).ok
                    /\ files[GetRet(crate_name).val].data \in
                          { es[n].data : n \in Exports(es) }

\* C11, amended: after a deliver that returned Ok, every export.rlib member
\* of every package was written to exactly the path get(crate_name) returns,
\* and that file holds the bytes of the package's last export.rlib member
\* unless an entry unpacked later (of the same archive or of a package
\* processed later) was written to the same path.
C11_ExportLands ==
    Delivered =>
        \A crate_name \in DOMAIN packages :
            LET es == packages[crate_name].archive.entries
                dest == GetRet(crate_name)
            IN  /\ dest.ok
                /\ \A n \in Exports(es) :
                     LET w == events[WriteIdx(crate_name, n)]
                     IN  w.path = dest.val /\ w.data = es[n].data
                /\ Exports(es) # {} =>
                     LET n == Last(Exports(es))
                     IN  \/ WrittenAfter(WriteIdx(crate_name, n), dest.val)
                         \/ files[dest.val].data = es[n].data

\* C11's case: two packages were delivered, and each placeholder holds the
\* export.rlib member of its own package.
C11_Witness ==
    /\ Delivered
    /\ DOMAIN packages = {CrateA, CrateAB}
    /\ packages[CrateA].archive.entries = <<EDep1, EExport>>
    /\ packages[CrateAB].archive.entries = <<EExportNested>>
    /\ files[<<RootDir, t, deps, LibA1>>].data = "export"
    /\ files[<<RootDir, t, deps, LibAB>>].data = "export2"

\* Whether the path of an entry has a final file-name component: it is not
\* empty and does not end in the root or in a parent-directory segment.
HasFileName(path) ==
    path # <<>> /\ path[Len(path)] # RootDir /\ path[Len(path)] # ParentDir

\* Whether the unpack of the package taken last was started: its name has an
\* Address, its source was opened and decoded.
LastUnpacked ==
    /\ Len(attempts) > 0
    /\ ~NoAddress(LastCrate)
    /\ packages[LastCrate].fetch_ok
    /\ packages[LastCrate].kind = "Url" => http_client = "Ok"
    /\ packages[LastCrate].archive.gzip_ok

\* Whether the unpack of the entries reaches the k-th and finds it to have
\* no file name: the entries before it were read and extracted.
NoNameAt(entries, k) ==
    /\ \A i \in 1..(k - 1) : entries[i].status = "ok" /\ HasFileName(entries[i].path)
    /\ entries[k].status \notin {"TarError", "TarPathError"}
    /\ ~HasFileName(entries[k].path)

\* C12: an entry whose path has no final file-name component makes the
\* unpack fail at once with TarFileNameError carrying the crate name and the
\* entry's path, which deliver returns; no later entry is extracted and the
\* entries extracted before it stay written.
C12_TarFileNameError ==
    LastUnpacked =>
        \A k \in 1..Len(LastEntries) :
            NoNameAt(LastEntries, k) =>
                LET ws == WritesOf(LastCrate)
                    error == [ok |-> FALSE,
                              err |-> [kind |-> "ArchiveError",
                                       err |-> [kind |-> "TarFileNameError",
                                                crate_name |-> LastCrate,
                                                path |-> LastEntries[k].path]]]
                IN  /\ attempts[Len(attempts)].ret = error
                    /\ dpc = "returned"
                    /\ deliver_result = Some(error)
                    /\ Len(ws) = k - 1
                    /\ \A i \in 1..(k - 1) :
                         /\ ws[i].data = LastEntries[i].data
                         /\ ws[i].path \in DOMAIN files
                         /\ (\A j \in (i + 1)..(k - 1) : ws[j].path # ws[i].path) =>
                                files[ws[i].path].data = LastEntries[i].data

\* C12's case: of the archive [d1, n/.., export.rlib] the first entry was
\* extracted, the second has no file name, and the placeholder is as it was.
C12_Witness ==
    /\ LastUnpacked
    /\ LastEntries = <<EDep1, ENoName, EExport>>
    /\ dpc = "returned"
    /\ attempts[1].ret.err.err.kind = "TarFileNameError"
    /\ files[<<RootDir, t, deps, D1>>].data = "dep1"
    /\ files[<<RootDir, t, deps, LibA1>>].data = "placeholder"

\* Whether every entry of an archive is read and extracted.
Extractable(archive) ==
    /\ archive.gzip_ok
    /\ \A i \in 1..Len(archive.entries) :
         archive.entries[i].status = "ok" /\ HasFileName(archive.entries[i].path)

\* Whether r is the error every URL delivery of a Depot without a client
\* returns.
SharedTlsError(r) == ~r.ok /\ r.err.kind = "TlsError" /\ r.err.err = "shared"

\* The events a step appended.
Appended == SubSeq(events', Len(events) + 1, Len(events'))

C13_Attempts ==
    \A i \in 1..Len(attempts) :
        LET crate_name == attempts[i].crate_name
            package == packages[crate_name]
        IN  ~NoAddress(crate_name) =>
                IF package.kind = "Url"
                THEN http_client = "Err" =>
                        /\ SharedTlsError(attempts[i].ret)
                        /\ \A j \in 1..Len(events) :
                             events[j].type \in {"GET", "open", "write"} =>
                                events[j].crate_name # crate_name
                ELSE /\ attempts[i].ret.ok <=>
                            (package.fetch_ok /\ Extractable(package.archive))
                     /\ ~SharedTlsError(attempts[i].ret)
                     /\ \E j \in 1..Len(events) :
                          /\ events[j].type = "open"
                          /\ events[j].crate_name = crate_name

C13_Step ==
    /\ http_client' = http_client
    /\ (/\ Attempts
        /\ http_client = "Err"
        /\ packages[Attempted.crate_name].kind = "Url"
        /\ ~NoAddress(Attempted.crate_name))
       => /\ SharedTlsError(Attempted.ret)
          /\ deliver_result'.ok /\ SharedTlsError(deliver_result'.val)
          /\ files' = files
          /\ \A j \in 1..Len(Appended) : Appended[j].type = "rerun-if-changed"

Carrier(error) == IF error.kind = "ArchiveError" THEN error.err ELSE error

\* Whether the crate name is recoverable from an error value, and is name.
CarriesCrate(error, name) ==
    /\ "crate_name" \in DOMAIN Carrier(error)
    /\ Carrier(error).crate_name = name

\* C14 as stated: every error deliver returns carries the name of the crate
\* that was being processed when it arose.
C14_Original ==
    \A i \in 1..Len(attempts) :
        ~attempts[i].ret.ok =>
            CarriesCrate(attempts[i].ret.err, attempts[i].crate_name)

\* C14, amended: every error deliver returns other than TlsError carries
\* the name of the crate that was being processed when it arose, as it was
\* given, and FileError and HttpError carry that package's source as well;
\* TlsError, returned for a URL package of a Depot without a client, carries
\* the shared construction error alone.
C14_ErrorsCarryCrate ==
    \A i \in 1..Len(attempts) :
        ~attempts[i].ret.ok =>
            LET error == attempts[i].ret.err
                package == packages[attempts[i].crate_name]
            IN  /\ error.kind \in {"FileError", "TlsError", "HttpError",
                                   "MissingLibraryFile", "ArchiveError"}
                /\ error.kind = "ArchiveError" =>
                     error.err.kind \in {"GzipError", "TarError", "TarPathError",
                                         "TarFileNameError"}
                /\ IF error.kind = "TlsError"
                   THEN /\ DOMAIN error = {"kind", "err"}
                        /\ package.kind = "Url"
                        /\ http_client = "Err"
                   ELSE CarriesCrate(error, attempts[i].crate_name)
                /\ error.kind \in {"FileError", "HttpError"} =>
                     error.source = package.source
                /\ deliver_result.ok /\ deliver_result.val.err.kind = error.kind

\* C14's case: the archive of crate a-b did not decode, and deliver returned
\* GzipError carrying a-b.
C14_Witness ==
    /\ Len(attempts) > 0
    /\ LastCrate = CrateADashB
    /\ ~attempts[Len(attempts)].ret.ok
    /\ attempts[Len(attempts)].ret.err.kind = "ArchiveError"
    /\ attempts[Len(attempts)].ret.err.err.kind = "GzipError"
    /\ attempts[Len(attempts)].ret.err.err.crate_name = CrateADashB

\* The number of change-tracking lines printed.
Announcements ==
    Cardinality({ i \in 1..Len(events) : events[i].type = "rerun-if-changed" })

\* C15 as stated: the number of announcements equals the number of distinct
\* crate names get resolved, directly or for deliver.
C15_Original == phase = "ready" => Announcements = Cardinality(resolved)

\* C15, amended: one announcement is printed per Address on its first
\* resolution: the number of announcements equals the number of distinct
\* normalised crate names (hyphens read as underscores) that were resolved,
\* which is the number of watched Addresses and at most the number of
\* distinct crate names resolved.
C15_OnePerAddress ==
    phase = "ready" =>
        /\ Announcements =
              Cardinality({ replace(name, "-", "_") : name \in resolved })
        /\ Announcements =
              Cardinality({ key \in DOMAIN addresses : addresses[key].is_watched })
        /\ Announcements <= Cardinality(resolved)
        /\ \A name \in resolved : replace(name, "-", "_") \in DOMAIN addresses

\* C15's case: the names a-b and a_b were both resolved, and one
\* announcement was printed.
C15_Witness ==
    /\ phase = "ready"
    /\ resolved = {CrateAB, CrateADashB}
    /\ Announcements = 1

\* The placeholder files the delivery overwrote: the paths the export.rlib
\* members were written to.
Overwritten ==
    { events[WriteIdx(crate_name, n)].path :
        <<crate_name, n>> \in
            UNION { {c} \X Exports(packages[c].archive.entries) : c \in DOMAIN packages } }

\* The scan after the delivery is over.
Rescanned == constructions = 2 /\ phase = "ready"

\* The Address the index holds for the name of the file at path.
WinnerFor(path) == addresses[ParseKey(path[Len(path)]).val]

\* C16 as stated: in the index of a scan made after a delivery, every
\* placeholder the delivery overwrote is the Address of its name.
C16_Original ==
    Rescanned =>
        \A path \in Overwritten : WinnerFor(path).file_name = path[Len(path)]

\* C16, amended: in the index of a scan made after a delivery, the name of
\* every placeholder the delivery overwrote has an Address, that of a file
\* of the directory that parses to the name; it is the overwritten
\* placeholder when no other file parses to the name, and when every file
\* that does has a known modification time and the placeholder's is greater
\* than every other's.
C16_RescanPolicy ==
    Rescanned =>
        \A path \in Overwritten :
            LET file_name == path[Len(path)]
                key == ParseKey(file_name)
                same == IndexedUnder(scanned, key.val)
                own == CHOOSE e \in same : e.file_name = file_name
            IN  /\ key.ok
                /\ key.val \in DOMAIN addresses
                /\ \E e \in same : e.file_name = file_name
                /\ \E e \in same : e.file_name = WinnerFor(path).file_name
                /\ own.metadata = unpack_mtime
                /\ (\A e \in same \ {own} :
                        /\ e.metadata.ok
                        /\ own.metadata.ok
                        /\ e.metadata.val < own.metadata.val)
                   => WinnerFor(path).file_name = file_name

\* C16's case: liba-1.rlib and liba-2.rlib both parse to a; the delivery
\* overwrote the one the first scan chose, leaving it the newest, and the
\* second scan chose it again.
C16_Witness ==
    /\ Rescanned
    /\ Cardinality(IndexedUnder(scanned, CrateA)) = 2
    /\ \E path \in Overwritten :
         /\ ParseKey(path[Len(path)]) = Some(CrateA)
         /\ files[path].data = "export"
         /\ files[path].mtime = MtimeOk(MaxTime + 1)
         /\ WinnerFor(path).file_name = path[Len(path)]

\* Whether path is a direct child of directory dir: dir followed by one
\* component, which is neither the root nor a parent-directory segment.
DirectChild(path, dir) ==
    /\ Len(path) = Len(dir) + 1
    /\ SubSeq(path, 1, Len(dir)) = dir
    /\ path[Len(path)] \notin {RootDir, ParentDir}

\* C17: every file deliver writes is a direct child of the deps directory,
\* the third ancestor of out_dir joined with "deps": an export.rlib member
\* is written at the name of a placeholder the scan found, every other
\* member at the final component of its path, whatever directories or
\* parent-directory segments the path has; a file anywhere else is as it
\* was.
C17_WritesInDepsDir ==
    phase = "ready" =>
        /\ deps_dir = SubSeq(out_dir, 1, Len(out_dir) - 3) \o <<deps>>
        /\ \A f \in DOMAIN files :
             ~DirectChild(f, deps_dir) => files[f].data = "placeholder"
        /\ \A i \in 1..Len(events) :
             events[i].type = "write" => DirectChild(events[i].path, deps_dir)
        /\ \A i \in 1..Len(attempts) :
             LET crate_name == attempts[i].crate_name
                 es == packages[crate_name].archive.entries
                 ws == WritesOf(crate_name)
             IN  \A n \in 1..Len(ws) :
                     LET name == ws[n].path[Len(ws[n].path)]
                     IN  IF es[n].path[Len(es[n].path)] = DEFAULT_EXPORT
                         THEN /\ name \in { e.file_name : e \in scanned }
                              /\ name = addresses[replace(crate_name, "-", "_")].file_name
                         ELSE name = es[n].path[Len(es[n].path)]

\* C17's case: the members ../d2, /d1 and n/export.rlib were written to
\* deps/d2, deps/d1 and the placeholder.
C17_Witness ==
    /\ phase = "ready"
    /\ Len(attempts) = 1
    /\ attempts[1].ret.ok
    /\ packages[attempts[1].crate_name].archive.entries =
          <<EDep2Up, EDep1Abs, EExportNested>>
    /\ files[deps_dir \o <<D2>>].data = "dep2up"
    /\ files[deps_dir \o <<D1>>].data = "dep1abs"
    /\ files[deps_dir \o <<LibA1>>].data = "export2"

\* NAME of a file name that matches lib<NAME>-<HASH>.rlib: valid text that
\* starts with "lib", ends with ".rlib" and has a '-' in between; None for
\* a file name that does not match.
PatternName(file_name) ==
    LET middle == SubSeq(file_name, Len(lib) + 1, Len(file_name) - Len(rlib))
    IN  IF /\ \A i \in 1..Len(file_name) : file_name[i] # InvalidByte
           /\ Len(file_name) >= Len(lib) + Len(rlib)
           /\ SubSeq(file_name, 1, Len(lib)) = lib
           /\ SubSeq(file_name, Len(file_name) - Len(rlib) + 1, Len(file_name)) = rlib
           /\ \E i \in 1..Len(middle) : middle[i] = "-"
        THEN Some(SubSeq(middle, 1,
                    (CHOOSE i \in 1..Len(middle) :
                        /\ middle[i] = "-"
                        /\ \A j \in 1..(i - 1) : middle[j] # "-") - 1))
        ELSE None

\* C18: the scan indexes an entry only if its name matches
\* lib<NAME>-<HASH>.rlib, under exactly NAME: an entry that is not valid
\* text, does not start with "lib", does not end with ".rlib" or has no '-'
\* adds no key to the index.
C18_Original ==
    phase = "ready" =>
        DOMAIN addresses =
            { PatternName(e.file_name).val :
                e \in { d \in scanned : PatternName(d.file_name).ok } }

\* Whether directory dir is base or a descendant of it, component by
\* component.
DescendantOf(dir, base) ==
    Len(base) <= Len(dir) /\ \A i \in 1..Len(base) : dir[i] = base[i]

\* The path the claim gives the signal of the file named file_name.
ClaimedSignal(file_name) ==
    IF DescendantOf(deps_dir, manifest_dir)
    THEN SubSeq(deps_dir, Len(manifest_dir) + 1, Len(deps_dir)) \o <<file_name>>
    ELSE deps_dir \o <<file_name>>

C19_Step ==
    (gets' = gets + 1 /\ replace(last_get'.val.name, "-", "_") \in DOMAIN addresses) =>
        LET library == addresses[replace(last_get'.val.name, "-", "_")]
        IN  /\ last_get'.val.ret = Some(deps_dir \o <<library.file_name>>)
            /\ Appended =
                 IF library.is_watched THEN <<>>
                 ELSE << [type |-> "rerun-if-changed",
                          path |-> ClaimedSignal(library.file_name)] >>

C19_Relative ==
    phase = "ready" =>
        relative_deps_dir =
            IF DescendantOf(deps_dir, manifest_dir)
            THEN Some(SubSeq(deps_dir, Len(manifest_dir) + 1, Len(deps_dir)))
            ELSE None

\* C19: relative_deps_dir is deps_dir without the manifest_dir prefix when
\* deps_dir is manifest_dir or a descendant of it, and absent otherwise;
\* the signal of an Address's first resolution carries relative_deps_dir
\* joined with the file name in the first case and deps_dir joined with the
\* file name in the second, and get returns deps_dir joined with the file
\* name in both.
C19_SignalPath == []C19_Relative /\ [][C19_Step]_vars

\* C19's case: deps_dir /t/deps is a descendant of manifest_dir /t; the
\* signal carried deps/liba_b-1.rlib and get returned /t/deps/liba_b-1.rlib.
C19_Witness ==
    /\ phase = "ready"
    /\ manifest_dir = <<RootDir, t>>
    /\ deps_dir = <<RootDir, t, deps>>
    /\ last_get.ok
    /\ last_get.val.fired
    /\ last_get.val.ret = Some(<<RootDir, t, deps, LibAB>>)
    /\ events[Len(events)] = [type |-> "rerun-if-changed", path |-> <<deps, LibAB>>]

\* The index with the watched flag of every Address set to flag.
Flagged(flag) == [key \in DOMAIN addresses |-> [addresses[key] EXCEPT !.is_watched = flag]]

C20_AnyFlag ==
    phase = "ready" =>
        \A name \in asked :
            /\ get(Flagged(TRUE), name).ret = get(Flagged(FALSE), name).ret
            /\ GetRet(name) = get(Flagged(FALSE), name).ret
            /\ GetRet(name).ok <=> replace(name, "-", "_") \in DOMAIN addresses

C20_Step ==
    gets' = gets + 1 =>
        LET name == last_get'.val.name
            key == replace(name, "-", "_")
        IN  /\ last_get'.val.ret = GetRet(name)
            /\ last_get'.val.ret = get(addresses', name).ret
            /\ (last_get.ok /\ replace(last_get.val.name, "-", "_") = key) =>
                    last_get'.val.ret = last_get.val.ret
            /\ key \notin DOMAIN addresses =>
                    /\ last_get'.val.ret = None
                    /\ events' = events
                    /\ addresses' = addresses

\* C20: what get returns depends on the name and the index alone: a name
\* whose normalised form has an Address gets the same destination from
\* every call, whether the flag is set or not and whether this call prints
\* the signal or not; a name without an Address gets None, and the call
\* prints nothing and changes no flag.
C20_FlagIndependent == []C20_AnyFlag /\ [][C20_Step]_vars

\* C20's case: a second call for crate a, which printed no signal, returned
\* the destination the first had returned.
C20_Witness ==
    /\ phase = "ready"
    /\ gets = 2
    /\ CrateA \in DOMAIN addresses
    /\ last_get.val.name = CrateA
    /\ ~last_get.val.fired
    /\ last_get.val.ret = Some(deps_dir \o <<addresses[CrateA].file_name>>)
    /\ Announcements = 1

\* The paths of the files the scan found, and the files that appeared in
\* the deps directory afterwards.
ScannedPaths == { deps_dir \o <<e.file_name>> : e \in scanned }
AppearedLater ==
    { f \in DOMAIN files : DirectChild(f, deps_dir) /\ f \notin ScannedPaths }

C21_Index ==
    phase = "ready" =>
        /\ \A key \in DOMAIN addresses :
             \E e \in scanned :
                /\ e.file_name = addresses[key].file_name
                /\ e.metadata = addresses[key].last_modified
        /\ \A name \in asked \cup DOMAIN packages :
             GetRet(name).ok => GetRet(name).val \in ScannedPaths \ AppearedLater
        /\ (last_get.ok /\ last_get.val.ret.ok) =>
             last_get.val.ret.val \in ScannedPaths \ AppearedLater

C21_Step ==
    (phase = "ready" /\ phase' = "ready") =>
        /\ DOMAIN addresses' = DOMAIN addresses
        /\ \A key \in DOMAIN addresses :
             /\ addresses'[key].file_name = addresses[key].file_name
             /\ addresses'[key].last_modified = addresses[key].last_modified
        /\ deps_dir' = deps_dir
        /\ relative_deps_dir' = relative_deps_dir

\* C21: once Recipients is constructed, no get and no step of deliver adds,
\* removes or replaces a key of the index, changes an Address's file name or
\* modification time, or changes deps_dir or relative_deps_dir; every
\* Address is a file the scan found, so get never returns a file that
\* appeared in the deps directory afterwards, a sibling written by unpack
\* included.
C21_ImmutableSnapshot == []C21_Index /\ [][C21_Step]_vars

\* C21's case: unpack wrote the sibling liba_b-1.rlib, which the scan had
\* not found; get(a_b) was called and returns None, and the index holds the
\* key a alone.
C21_Witness ==
    /\ phase = "ready"
    /\ dpc = "returned"
    /\ deps_dir \o <<LibAB>> \in AppearedLater
    /\ files[deps_dir \o <<LibAB>>].data = "sibling"
    /\ DOMAIN addresses = {CrateA}
    /\ last_get = Some([name |-> CrateAB, ret |-> None, fired |-> FALSE])
    /\ GetRet(CrateAB) = None

\* The events of a transfer: the source is opened or requested, a byte is
\* written.
IsTransfer(e) == e.type \in {"open", "GET", "write"}
IsSignal(e) == e.type = "rerun-if-changed"

\* Every event of a package's transfer follows the line of the watch of the
\* package's Address.
C22_Log ==
    \A j \in 1..Len(events) :
        IsTransfer(events[j]) =>
            LET key == normalize(events[j].crate_name)
            IN  /\ key \in DOMAIN addresses
                /\ \E i \in 1..(j - 1) :
                      /\ IsSignal(events[i])
                      /\ events[i].path = SignalPath(key)

\* An iteration of deliver for a name that resolves: the Address is watched
\* afterwards; a first resolution prints the line before everything else
\* the iteration does, whatever the iteration returns; a later one prints
\* no line.
C22_Step ==
    (Attempts /\ ~NoAddress(Attempted.crate_name)) =>
        LET key == normalize(Attempted.crate_name)
            first == ~addresses[key].is_watched
        IN  /\ addresses'[key].is_watched
            /\ first =>
                 /\ Len(Appended) >= 1
                 /\ IsSignal(Appended[1])
                 /\ Appended[1].path = SignalPath(key)
                 /\ \A i \in 2..Len(Appended) : IsTransfer(Appended[i])
            /\ ~first => \A i \in 1..Len(Appended) : IsTransfer(Appended[i])

\* C22: deliver emits the watch signal of a package's Address when the
\* destination is resolved, before the source is opened or requested and
\* before any byte is written: a first resolution's signal precedes all of
\* the package's transfer events, and it is emitted when the transfer or the
\* unpack then fails as when it succeeds.
C22_SignalFirst == []C22_Log /\ [][C22_Step]_vars

\* C22's case: no get was called directly, deliver resolved a package,
\* printed the line, wrote a file and then failed in the archive.
C22_Witness ==
    /\ dpc = "returned"
    /\ gets = 0
    /\ Len(attempts) >= 1
    /\ LET a == attempts[Len(attempts)]
       IN  /\ ~a.ret.ok
           /\ a.ret.err.kind = "ArchiveError"
           /\ \E i, j \in 1..Len(events) :
                 /\ i < j
                 /\ IsSignal(events[i])
                 /\ events[i].path = SignalPath(normalize(a.crate_name))
                 /\ events[j].type = "write"
                 /\ events[j].crate_name = a.crate_name

====
